---- MODULE Spec2Model ----
(***************************************************************************)
(* Model of the moderation bot of src/main.py: the banned-word set, its    *)
(* file banned.txt, the startup load, and the handlers start, contact,     *)
(* append, list_banned and word_detector.                                  *)
(*                                                                         *)
(* A string is a sequence of code points.  A call of the chat library      *)
(* (reply_text, send_message, delete, get_chat_member) and every file      *)
(* operation either succeeds or raises.  Under Spec the handlers run one   *)
(* at a time, each to its end (main.py:179, run_polling); under SpecC two  *)
(* append commands are in flight together and take turns wherever one of   *)
(* them awaits.                                                            *)
(***************************************************************************)
EXTENDS Integers, Sequences, FiniteSets, TLC

----------------------------------------------------------------------------
(* Bounds of the model *)

\* longest text of a chat message, and of what follows a command's name
MaxTextLen == 2
\* longest content of banned.txt before the process first starts
MaxFileLen == 2
\* the set takes a new word only while it holds fewer than MaxWords words
MaxWords == 2

----------------------------------------------------------------------------
(* Characters and strings *)

\* "\n", written after every word (main.py:45)
LF == 10
\* " ", the separator of " ".join(context.args) (main.py:111)
SP == 32

\* code points of the texts users send: " ", "A"
TextChars == {32, 65}
\* code points of the file found at first start: "\n", " ", "A"
FileChars == {10, 32, 65}

StringsUpTo(chars, n) == UNION {[1..k -> chars] : k \in 0..n}

Texts == StringsUpTo(TextChars, MaxTextLen)
InitialFiles == StringsUpTo(FileChars, MaxFileLen)

\* str.isspace for the ASCII range: \t \n \v \f \r and the space
IsSpace(c) == c \in {9, 10, 11, 12, 13, 32}

\* str.lower, one character
LowerChar(c) == IF c \in 65..90 THEN c + 32 ELSE c

\* str.lower
Lower(s) == [i \in 1..Len(s) |-> LowerChar(s[i])]

\* str.strip: drops the leading and the trailing whitespace
Strip(s) ==
  LET ink == {i \in 1..Len(s) : ~IsSpace(s[i])}
  IN  IF ink = {} THEN <<>>
      ELSE LET first == CHOOSE i \in ink : \A j \in ink : i <= j
               last_ == CHOOSE i \in ink : \A j \in ink : j <= i
           IN  SubSeq(s, first, last_)

\* str.split(): the maximal runs of non-whitespace, in order.  The chat
\* library hands a command's text, split this way, to the handler as
\* context.args (main.py:107)
RECURSIVE Split(_)
Split(s) ==
  LET ink == {i \in 1..Len(s) : ~IsSpace(s[i])}
  IN  IF ink = {} THEN <<>>
      ELSE LET first == CHOOSE i \in ink : \A j \in ink : i <= j
               stops == {i \in first..Len(s) : IsSpace(s[i])}
               stop == IF stops = {} THEN Len(s) + 1
                       ELSE CHOOSE i \in stops : \A j \in stops : i <= j
           IN  <<SubSeq(s, first, stop - 1)>> \o Split(SubSeq(s, stop, Len(s)))

\* the values of context.args: what follows the command's name, split
Args == {Split(t) : t \in Texts}

\* " ".join(args)
RECURSIVE Join(_)
Join(args) ==
  IF args = <<>> THEN <<>>
  ELSE IF Len(args) = 1 THEN args[1]
  ELSE args[1] \o <<SP>> \o Join(Tail(args))

\* a slip: the word is kept as typed, .lower() left out
Normalize_NoLower(args) == Strip(Join(args))

\* " ".join(context.args).strip().lower()
Normalize(args) == Lower(Strip(Join(args)))

\* `for word in f`: the lines of a text file, each with its "\n", the last
\* one possibly without
RECURSIVE Lines(_)
Lines(content) ==
  IF content = <<>> THEN <<>>
  ELSE LET ends == {i \in 1..Len(content) : content[i] = LF}
       IN  IF ends = {} THEN <<content>>
           ELSE LET k == CHOOSE i \in ends : \A j \in ends : i <= j
                IN  <<SubSeq(content, 1, k)>>
                      \o Lines(SubSeq(content, k + 1, Len(content)))

\* a slip: the lines are taken with their newline, .strip() left out
ParseFile_NoStrip(content) ==
  LET ls == Lines(content)
  IN  {Lower(ls[i]) : i \in {j \in 1..Len(ls) : Strip(ls[j]) # <<>>}}

\* {word.strip().lower() for word in f if word.strip()}
ParseFile(content) ==
  LET ls == Lines(content)
  IN  {Lower(Strip(ls[i])) : i \in {j \in 1..Len(ls) : Strip(ls[j]) # <<>>}}

\* the order of Python strings: by code point, a proper prefix first
StrLeq(a, b) ==
  \/ a = b
  \/ \E k \in 1..Len(b) :
       /\ k <= Len(a) + 1
       /\ \A j \in 1..(k - 1) : a[j] = b[j]
       /\ (k = Len(a) + 1 \/ a[k] < b[k])

\* sorted(list(banned_words))
RECURSIVE Sorted(_)
Sorted(S) ==
  IF S = {} THEN <<>>
  ELSE LET m == CHOOSE x \in S : \A y \in S : StrLeq(x, y)
       IN  <<m>> \o Sorted(S \ {m})

\* what save_banned_words writes: every word of the sorted list and "\n"
RECURSIVE WriteAll(_)
WriteAll(ws) ==
  IF ws = <<>> THEN <<>> ELSE ws[1] \o <<LF>> \o WriteAll(Tail(ws))

\* sorted(..., reverse=True)
RECURSIVE SortedDescending(_)
SortedDescending(S) ==
  IF S = {} THEN <<>>
  ELSE LET m == CHOOSE x \in S : \A y \in S : StrLeq(y, x)
       IN  <<m>> \o SortedDescending(S \ {m})

\* a slip: the words are written in the wrong order
Serialize_Descending(S) == WriteAll(SortedDescending(S))

\* f.write(word) for every word: the "\n" left out
RECURSIVE WriteAll_NoNewline(_)
WriteAll_NoNewline(ws) ==
  IF ws = <<>> THEN <<>> ELSE ws[1] \o WriteAll_NoNewline(Tail(ws))

\* a slip: the words are written one after the other on one line
Serialize_NoNewline(S) == WriteAll_NoNewline(Sorted(S))

\* the content save_banned_words writes for the set S (main.py:44-45)
Serialize(S) == WriteAll(Sorted(S))

\* `sub in s` for strings: sub is a contiguous part of s
Contains(sub, s) ==
  \E i \in 0..(Len(s) - Len(sub)) : SubSeq(s, i + 1, i + Len(sub)) = sub

----------------------------------------------------------------------------
(* The state *)

VARIABLES
  pc,            \* "start": main has not loaded the file yet; "running": polling
  banned_words,  \* the global set banned_words (main.py:19)
  file,          \* banned.txt: whether it exists, and its content
  last,          \* the operation that ran last, with what it was given, the
                 \* calls it made to the chat library and what it logged
  tasks          \* the append commands in flight together, in the order in
                 \* which they came in, each with the await it stands at;
                 \* empty when handlers run one at a time

vars == <<pc, banned_words, file, last, tasks>>

\* what get_chat_member answers: the status of the user in the chat, or
\* "error" when the query raises, whatever the user's status is
Statuses == {"administrator", "creator", "member", "error"}


NoFile == [exists |-> FALSE, content |-> <<>>]
FileOf(content) == [exists |-> TRUE, content |-> content]

\* one call of the chat library: update.message.delete(), reply_text(...) or
\* context.bot.send_message(...), the message it carries and whether it
\* returned (ok) or raised
Call(api, kind, body, ok) == [api |-> api, kind |-> kind, body |-> body, ok |-> ok]

\* one entry of the log: logger.info or logger.error, what it reports and
\* the word it names, if any
Log(level, event, word) == [level |-> level, event |-> event, word |-> word]

Idle == [handler |-> "none", text |-> <<>>, args |-> <<>>, chat |-> TRUE,
         status |-> "none", io |-> "none", calls |-> <<>>, logs |-> <<>>,
         raised |-> FALSE]

\* the record of one run of a handler: the text of the message or the
\* arguments of the command, what the library answered, the calls made and
\* the log written, in order; raised: the handler ended in the exception of
\* its last call
Ran(handler, text, args, who, io, calls, logs) ==
  [handler |-> handler, text |-> text, args |-> args, chat |-> who.chat,
   status |-> who.status, io |-> io, calls |-> calls, logs |-> logs,
   raised |-> (calls # <<>> /\ ~calls[Len(calls)].ok)]

\* a handler that does not look at who sent the update
Anyone == [chat |-> TRUE, status |-> "none"]

\* the places in tasks: two append commands can be in flight together
Tasks == {1, 2}

\* an append command as it comes in, with nothing known of its sender and
\* nothing answered
NewTask == [at |-> "asking", args |-> <<>>, chat |-> TRUE, status |-> "none",
            kind |-> "", io |-> "none"]

Init ==
  /\ pc = "start"
  /\ banned_words = {}
  /\ file \in {NoFile} \cup {FileOf(c) : c \in InitialFiles}
  /\ last = Idle
  /\ tasks = <<>>

----------------------------------------------------------------------------
(* Persistence *)

\* a slip: the except branch only logs, and the set keeps what the read had
\* gathered
load_banned_words_KeepOnError(f, readOk) ==
  IF ~readOk
    THEN [words |-> IF f.exists THEN ParseFile(f.content) ELSE {}, file |-> f,
          logs |-> <<Log("error", "loading", <<>>)>>]
    ELSE IF f.exists
      THEN [words |-> ParseFile(f.content), file |-> f,
            logs |-> <<Log("info", "loaded", <<>>)>>]
      ELSE [words |-> {}, file |-> FileOf(<<>>), logs |-> <<Log("info", "created", <<>>)>>]

\* load_banned_words (main.py:22-38) on file f; readOk: no file operation
\* raises.  The new set, the file afterwards, the log.
load_banned_words(f, readOk) ==
  IF ~readOk
    THEN [words |-> {}, file |-> f, logs |-> <<Log("error", "loading", <<>>)>>]
    ELSE IF f.exists
      THEN [words |-> ParseFile(f.content), file |-> f,
            logs |-> <<Log("info", "loaded", <<>>)>>]
      ELSE [words |-> {}, file |-> FileOf(<<>>), logs |-> <<Log("info", "created", <<>>)>>]

\* what a save of the sorted list ws can leave in file f when it raises:
\* open(.., "w") raised and nothing changed, or the file was truncated and
\* one of the f.write calls raised, the words before it written
FailedWrites(f, ws) ==
  {f} \cup {FileOf(WriteAll(SubSeq(ws, 1, k))) : k \in 0..(Len(ws) - 1)}

\* save_banned_words (main.py:40-48) of the set S over file f: every way it
\* can end
save_banned_words(S, f) ==
  {[file |-> FileOf(Serialize(S)), ok |-> TRUE,
    logs |-> <<Log("info", "saved", <<>>)>>]}
    \cup {[file |-> g, ok |-> FALSE, logs |-> <<Log("error", "saving", <<>>)>>] :
            g \in FailedWrites(f, Sorted(S))}

\* main (main.py:161-164): the load at startup
Load ==
  /\ pc = "start"
  /\ \E readOk \in BOOLEAN :
       LET r == load_banned_words(file, readOk)
       IN  /\ banned_words' = r.words
           /\ file' = r.file
           /\ last' = Ran("load", <<>>, <<>>, Anyone,
                          IF readOk THEN "ok" ELSE "fail", <<>>, r.logs)
  /\ pc' = "running"
  /\ UNCHANGED tasks

----------------------------------------------------------------------------
(* Authorization *)

\* a slip: the except branch returns True
is_user_admin_FailOpen(status) ==
  IF status = "error" THEN TRUE
  ELSE status \in {"administrator", "creator"}

\* is_user_admin (main.py:51-66), given what get_chat_member answered
is_user_admin(status) ==
  IF status = "error" THEN FALSE
  ELSE status \in {"administrator", "creator"}

\* the log of is_user_admin
AdminLogs(status) ==
  IF status = "error" THEN <<Log("error", "checking_admin", <<>>)>> ELSE <<>>

----------------------------------------------------------------------------
(* The command handlers *)

\* start (main.py:69-78)
Start ==
  /\ pc = "running"
  /\ \E ok \in BOOLEAN :
       last' = Ran("start", <<>>, <<>>, Anyone, "none",
                   <<Call("reply_text", "Greeting", <<>>, ok)>>, <<>>)
  /\ UNCHANGED <<pc, banned_words, file, tasks>>

\* contact (main.py:81-86)
Contact ==
  /\ pc = "running"
  /\ \E ok \in BOOLEAN :
       last' = Ran("contact", <<>>, <<>>, Anyone, "none",
                   <<Call("reply_text", "Contact", <<>>, ok)>>, <<>>)
  /\ UNCHANGED <<pc, banned_words, file, tasks>>

\* a slip: the membership test left out, every word taken as new
already_banned_Never(word, words) == FALSE

\* a slip: the test turned round, `not in` for `in`
already_banned_Inverted(word, words) == word \notin words

\* `word_to_add in banned_words` (main.py:116)
already_banned(word, words) == word \in words

\* a slip: the two tests for a missing or empty word left out
AppendRejection_NoEmptyCheck(chat, status, args) ==
  IF ~chat THEN "OnlyInChat"
  ELSE IF ~is_user_admin(status) THEN "NotAuthorized"
  ELSE ""

\* a slip: the sender is not checked
AppendRejection_NoAdminCheck(chat, status, args) ==
  IF ~chat THEN "OnlyInChat"
  ELSE IF args = <<>> THEN "ProvideWord"
  ELSE IF Normalize(args) = <<>> THEN "EmptyWord"
  ELSE ""

\* the answer of append when it stops before touching the set
\* (main.py:94-114): the message of its one reply, or "" when it goes on
AppendRejection(chat, status, args) ==
  IF ~chat THEN "OnlyInChat"
  ELSE IF ~is_user_admin(status) THEN "NotAuthorized"
  ELSE IF args = <<>> THEN "ProvideWord"
  ELSE IF Normalize(args) = <<>> THEN "EmptyWord"
  ELSE ""

\* who sends a command: an update without chat or user (nobody is asked
\* about), or a user and the answer of get_chat_member about them
Senders ==
  {[chat |-> FALSE, status |-> "none"]}
    \cup {[chat |-> TRUE, status |-> a] : a \in Statuses}

\* append (main.py:89-122).  args: context.args; who: the sender; ok: the
\* reply returns
AppendCmd ==
  /\ pc = "running"
  /\ \E args \in Args, who \in Senders, ok \in BOOLEAN :
       LET word == Normalize(args)
           lg == IF who.chat THEN AdminLogs(who.status) ELSE <<>>
           rej == AppendRejection(who.chat, who.status, args)
       IN  /\ IF rej # ""
                THEN /\ last' = Ran("append", <<>>, args, who, "none",
                                    <<Call("reply_text", rej, <<>>, ok)>>, lg)
                     /\ UNCHANGED <<banned_words, file>>
              ELSE IF already_banned(word, banned_words)
                THEN /\ last' = Ran("append", <<>>, args, who, "none",
                                    <<Call("reply_text", "AlreadyPresent", word, ok)>>,
                                    lg)
                     /\ UNCHANGED <<banned_words, file>>
              ELSE /\ Cardinality(banned_words) < MaxWords
                   /\ banned_words' = banned_words \cup {word}
                   /\ \E w \in save_banned_words(banned_words', file) :
                        /\ file' = w.file
                        /\ last' = Ran("append", <<>>, args, who,
                                       IF w.ok THEN "ok" ELSE "fail",
                                       <<Call("reply_text", "Added", word, ok)>>,
                                       lg \o w.logs
                                         \o <<Log("info", "appended", word)>>)
  /\ UNCHANGED <<pc, tasks>>

\* the text of the list (main.py:130-131): "- " and the word, for every
\* word of the sorted list, the lines joined by "\n"
RECURSIVE Bullets(_)
Bullets(ws) ==
  IF ws = <<>> THEN <<>>
  ELSE IF Len(ws) = 1 THEN <<45, 32>> \o ws[1]
  ELSE <<45, 32>> \o ws[1] \o <<LF>> \o Bullets(Tail(ws))

\* a slip: the list is made of the set as it comes, here in the reverse
\* order
banned_list_str_Unsorted(words) == Bullets(SortedDescending(words))

\* banned_list_str (main.py:130)
banned_list_str(words) == Bullets(Sorted(words))

\* list_banned (main.py:125-131)
ListBanned ==
  /\ pc = "running"
  /\ \E ok \in BOOLEAN :
       last' = Ran("list_banned", <<>>, <<>>, Anyone, "none",
                   <<IF banned_words = {}
                       THEN Call("reply_text", "ListEmpty", <<>>, ok)
                       ELSE Call("reply_text", "List",
                                 banned_list_str(banned_words), ok)>>,
                   <<>>)
  /\ UNCHANGED <<pc, banned_words, file, tasks>>

----------------------------------------------------------------------------
(* The message handler *)

\* a slip: the text is searched as typed, .lower() left out
Matching_CaseSensitive(words, text) == {w \in words : Contains(w, text)}

\* a slip: the operands of `in` exchanged, the text looked for in the word
Matching_Swapped(words, text) == {w \in words : Contains(Lower(text), w)}

\* the words for which `banned_word in user_message_lower` holds
\* (main.py:140-143)
Matching(words, text) == {w \in words : Contains(w, Lower(text))}

\* a slip: the failure of the deletion is swallowed and the notice of
\* removal sent all the same
Remediate_NoticeAnyway(w, delOk, sendOk, replyOk) ==
  [calls |-> <<Call("delete", "", <<>>, delOk),
               Call("send_message", "WarnRemoved", <<>>, TRUE)>>,
   logs |-> IF delOk THEN <<Log("info", "deleted", w)>>
            ELSE <<Log("error", "deleting", <<>>)>>]

\* what word_detector does once the loop has found the banned word w
\* (main.py:144-158); delOk, sendOk, replyOk: the call returns
Remediate(w, delOk, sendOk, replyOk) ==
  IF delOk /\ sendOk
    THEN [calls |-> <<Call("delete", "", <<>>, TRUE),
                      Call("send_message", "WarnRemoved", <<>>, TRUE)>>,
          logs |-> <<Log("info", "deleted", w)>>]
  ELSE IF delOk
    THEN [calls |-> <<Call("delete", "", <<>>, TRUE),
                      Call("send_message", "WarnRemoved", <<>>, FALSE),
                      Call("reply_text", "WarnPlain", <<>>, replyOk)>>,
          logs |-> <<Log("error", "deleting", <<>>)>>]
  ELSE [calls |-> <<Call("delete", "", <<>>, FALSE),
                    Call("reply_text", "WarnPlain", <<>>, replyOk)>>,
        logs |-> <<Log("error", "deleting", <<>>)>>]

\* word_detector (main.py:134-158).  text: the text of the message, <<>> for
\* a message without text.  The loop runs over the set in an order Python
\* does not fix: any matching word can be the one it meets first.  A call
\* that is not made has no outcome (its flag stays TRUE)
WordDetector ==
  /\ pc = "running"
  /\ \E text \in Texts :
       IF text = <<>> \/ Matching(banned_words, text) = {}
         THEN last' = Ran("word_detector", text, <<>>, Anyone, "none",
                          <<>>, <<>>)
         ELSE \E w \in Matching(banned_words, text),
                 delOk \in BOOLEAN, sendOk \in BOOLEAN, replyOk \in BOOLEAN :
                LET r == Remediate(w, delOk, sendOk, replyOk)
                IN  /\ delOk \/ sendOk
                    /\ (delOk /\ sendOk) => replyOk
                    /\ last' = Ran("word_detector", text, <<>>, Anyone,
                                   "none", r.calls, r.logs)
  /\ UNCHANGED <<pc, banned_words, file, tasks>>

----------------------------------------------------------------------------

Next ==
  \/ Load
  \/ Start
  \/ Contact
  \/ AppendCmd
  \/ ListBanned
  \/ WordDetector

Spec == Init /\ [][Next]_vars

----------------------------------------------------------------------------
(* Two append commands in flight together *)

\* append up to its first await (main.py:94-99, 61): command t comes in,
\* after the commands before it.  Without chat or user it goes to its reply;
\* else it asks get_chat_member and waits for the answer
Receive(t) ==
  /\ pc = "running"
  /\ t = Len(tasks) + 1
  /\ \E args \in Args, chat \in BOOLEAN :
       tasks' = Append(tasks,
                       IF chat
                         THEN [NewTask EXCEPT !.args = args]
                         ELSE [NewTask EXCEPT !.at = "replying", !.args = args,
                                              !.chat = FALSE, !.kind = "OnlyInChat"])
  /\ UNCHANGED <<pc, banned_words, file, last>>

\* append from the answer of get_chat_member to its next await, the reply
\* (main.py:61-66, 99-122): no await lies between; status: the answer
Answer(t) ==
  /\ t \in DOMAIN tasks
  /\ tasks[t].at = "asking"
  /\ \E status \in Statuses :
       LET args == tasks[t].args
           word == Normalize(args)
           rej == AppendRejection(TRUE, status, args)
           to(kind, io) == [tasks EXCEPT ![t] =
                              [@ EXCEPT !.at = "replying", !.status = status,
                                        !.kind = kind, !.io = io]]
       IN  IF rej # ""
             THEN /\ tasks' = to(rej, "none")
                  /\ UNCHANGED <<banned_words, file>>
           ELSE IF already_banned(word, banned_words)
             THEN /\ tasks' = to("AlreadyPresent", "none")
                  /\ UNCHANGED <<banned_words, file>>
           ELSE /\ Cardinality(banned_words) < MaxWords
                /\ banned_words' = banned_words \cup {word}
                /\ \E w \in save_banned_words(banned_words', file) :
                     /\ file' = w.file
                     /\ tasks' = to("Added", IF w.ok THEN "ok" ELSE "fail")
  /\ UNCHANGED <<pc, last>>

\* the reply of command t returns or raises: the handler is over
Reply(t) ==
  /\ t \in DOMAIN tasks
  /\ tasks[t].at = "replying"
  /\ tasks' = [tasks EXCEPT ![t] = [@ EXCEPT !.at = "done"]]
  /\ UNCHANGED <<pc, banned_words, file, last>>

NextC ==
  \/ Load
  \/ \E t \in Tasks : Receive(t)
  \/ \E t \in Tasks : Answer(t)
  \/ \E t \in Tasks : Reply(t)

SpecC == Init /\ [][NextC]_vars

----------------------------------------------------------------------------
(* What the properties below speak of *)

\* the messages a run sent or tried to send, in order
Messages(r) == SelectSeq(r.calls, LAMBDA c : c.api # "delete")

\* the kinds of those messages
Kinds(r) == [i \in 1..Len(Messages(r)) |-> Messages(r)[i].kind]

\* the calls of update.message.delete() of a run
Deletions(r) == SelectSeq(r.calls, LAMBDA c : c.api = "delete")

\* r is a run of append whose membership query answered administrator or
\* creator
Authorized(r) ==
  /\ r.handler = "append"
  /\ r.chat
  /\ r.status \in {"administrator", "creator"}

\* the lines of file f that are the word w and a newline
LinesEqual(f, w) ==
  LET ls == Lines(f.content)
  IN  {i \in 1..Len(ls) : ls[i] = w \o <<LF>>}

\* a < b in the order of strings, stated on its own: at the first place
\* where they differ a has the smaller code point, or a is a proper prefix
Before(a, b) ==
  \E k \in 1..Len(b) :
    /\ \A j \in 1..(k - 1) : j <= Len(a) /\ a[j] = b[j]
    /\ \/ Len(a) = k - 1
       \/ Len(a) >= k /\ a[k] < b[k]

\* file f is exactly the set S, one word per line, ascending, every line
\* ended by a newline
IsSortedFileOf(f, S) ==
  /\ f.exists
  /\ LET ls == Lines(f.content)
     IN  /\ Len(ls) = Cardinality(S)
         /\ \A i \in 1..Len(ls) :
              /\ ls[i][Len(ls[i])] = LF
              /\ SubSeq(ls[i], 1, Len(ls[i]) - 1) \in S
         /\ \A i \in 1..(Len(ls) - 1) :
              Before(SubSeq(ls[i], 1, Len(ls[i]) - 1),
                     SubSeq(ls[i + 1], 1, Len(ls[i + 1]) - 1))

----------------------------------------------------------------------------
(* C1 *)

\* C1: append changes the set or the file only if the membership query of
\* that run answered administrator or creator; when the query raises or
\* answers any other status, the one reply is the not-authorized message
\* and the set and the file stay as they were, whatever the sender's role.
C1_FailClosedAuthorization ==
  [][/\ (pc = "running" /\ <<banned_words, file>>' # <<banned_words, file>>)
          => Authorized(last')
     /\ (last'.handler = "append" /\ last'.chat /\ ~Authorized(last'))
          => /\ Kinds(last') = <<"NotAuthorized">>
             /\ UNCHANGED <<banned_words, file>>]_vars

\* the query raised, and append refused a word it would have added
C1_Witness ==
  /\ last.handler = "append"
  /\ last.status = "error"
  /\ last.args # <<>>
  /\ Normalize(last.args) \notin banned_words
  /\ Cardinality(banned_words) < MaxWords
  /\ Kinds(last) = <<"NotAuthorized">>

----------------------------------------------------------------------------
(* C2 *)

----------------------------------------------------------------------------
(* C3 *)

----------------------------------------------------------------------------
(* C4 *)

----------------------------------------------------------------------------
(* C5 *)

\* w occurs in t as a contiguous part, t taken in lowercase
OccursIn(w, t) ==
  \E i \in 1..(Len(t) - Len(w) + 1) :
    \A j \in 1..Len(w) :
      w[j] = (IF t[i + j - 1] \in 65..90 THEN t[i + j - 1] + 32 ELSE t[i + j - 1])

\* the message of run r holds a banned word
HoldsBannedWord(r) == \E w \in banned_words : OccursIn(w, r.text)

\* C5: for a text message that holds one or more banned words,
\* word_detector deletes the message exactly once and sends exactly one
\* warning, however many banned words there are in it.
C5_OneDeletionOneWarning ==
  (last.handler = "word_detector" /\ HoldsBannedWord(last))
    => /\ Len(Deletions(last)) = 1
       /\ Len(Messages(last)) = 1

----------------------------------------------------------------------------
(* C6 *)

\* C6: when the deletion of a matching message fails, word_detector logs
\* the failure and sends the plain warning reply, and does not send the
\* "Your message was removed." notice.
C6_DeletionFailureFallsBack ==
  (/\ last.handler = "word_detector"
   /\ Deletions(last) # <<>>
   /\ ~Deletions(last)[1].ok)
    => /\ \E i \in 1..Len(last.logs) :
            last.logs[i].level = "error" /\ last.logs[i].event = "deleting"
       /\ Kinds(last) = <<"WarnPlain">>
       /\ Messages(last)[1].api = "reply_text"

\* a message with two banned words in it, its deletion refused
C6_Witness ==
  /\ last.handler = "word_detector"
  /\ Deletions(last) # <<>> /\ ~Deletions(last)[1].ok
  /\ Cardinality({w \in banned_words : OccursIn(w, last.text)}) = 2
  /\ Kinds(last) = <<"WarnPlain">>

----------------------------------------------------------------------------
(* C7 *)

\* C7: word_detector tries to delete the message and warns if and only if
\* the message has a text and some banned word is a contiguous part of
\* the text in lowercase, word boundaries playing no part; a message
\* without text gets nothing done.
C7_RemediatesIffSubstring ==
  last.handler = "word_detector" =>
    /\ (Deletions(last) # <<>> /\ Messages(last) # <<>>)
         <=> (last.text # <<>> /\ HoldsBannedWord(last))
    /\ (Deletions(last) = <<>>) => (last.calls = <<>> /\ last.logs = <<>>)

\* the banned word is a part of a longer word of the message, written in
\* capitals there, as "ass" is in "class"
C7_Witness ==
  /\ last.handler = "word_detector"
  /\ Deletions(last) # <<>> /\ Messages(last) # <<>>
  /\ \A i \in 1..Len(last.text) : ~IsSpace(last.text[i])
  /\ \A w \in banned_words : Len(w) < Len(last.text)
  /\ banned_words # {}

----------------------------------------------------------------------------
(* C8 *)

\* C8: after the load at startup and after any appends, every word of the
\* set is non-empty, begins and ends with a character that is not
\* whitespace, and has no capital letter.
C8_WordsAreNormalized ==
  \A w \in banned_words :
    /\ w # <<>>
    /\ ~IsSpace(w[1])
    /\ ~IsSpace(w[Len(w)])
    /\ \A i \in 1..Len(w) : w[i] \notin 65..90

\* " A" was appended and "a" is what the set holds
C8_Witness ==
  /\ last.handler = "append"
  /\ last.args = Split(<<SP, 65>>)
  /\ Kinds(last) = <<"Added">>
  /\ banned_words = {<<97>>}

----------------------------------------------------------------------------
(* C9 *)

\* C9: an authorized append with no arguments, or with arguments that
\* normalize to the empty string, is answered with a rejection, and the
\* set and the file stay as they were.
C9_EmptyWordRejected ==
  [][(Authorized(last') /\ (last'.args = <<>> \/ Normalize(last'.args) = <<>>))
       => /\ Kinds(last') \in {<<"ProvideWord">>, <<"EmptyWord">>}
          /\ last'.logs = <<>>
          /\ UNCHANGED <<banned_words, file>>]_vars

\* an administrator sent /append with nothing after it
C9_Witness ==
  /\ Authorized(last)
  /\ last.args = <<>>
  /\ Kinds(last) = <<"ProvideWord">>
  /\ banned_words # {}

----------------------------------------------------------------------------
(* C10 *)

\* the text of a line without its newline
Chomp(l) == IF l # <<>> /\ l[Len(l)] = LF THEN SubSeq(l, 1, Len(l) - 1) ELSE l

\* body is one line "- w" for every word w of S, in ascending order
IsBulletListOf(body, S) ==
  LET ls == Lines(body)
  IN  /\ Len(ls) = Cardinality(S)
      /\ \A i \in 1..Len(ls) :
           /\ Len(Chomp(ls[i])) >= 2
           /\ SubSeq(Chomp(ls[i]), 1, 2) = <<45, 32>>
           /\ SubSeq(Chomp(ls[i]), 3, Len(Chomp(ls[i]))) \in S
      /\ \A i \in 1..(Len(ls) - 1) :
           Before(SubSeq(Chomp(ls[i]), 3, Len(Chomp(ls[i]))),
                  SubSeq(Chomp(ls[i + 1]), 3, Len(Chomp(ls[i + 1]))))

\* C10: list_banned changes neither the set nor the file; with an empty
\* set it replies that the list is empty, otherwise with the words of the
\* set, one bullet each, in ascending order.
C10_ListIsReadOnlyAndSorted ==
  [][last'.handler = "list_banned"
       => /\ UNCHANGED <<banned_words, file>>
          /\ Len(Messages(last')) = 1
          /\ IF banned_words = {}
               THEN Kinds(last') = <<"ListEmpty">>
               ELSE /\ Kinds(last') = <<"List">>
                    /\ IsBulletListOf(Messages(last')[1].body, banned_words)]_vars

\* the list of a set of two words
C10_Witness ==
  /\ last.handler = "list_banned"
  /\ Kinds(last) = <<"List">>
  /\ Cardinality(banned_words) = 2
  /\ IsBulletListOf(Messages(last)[1].body, banned_words)

----------------------------------------------------------------------------
(* C11 *)

\* the part content[a..b] is what one line of content holds between its
\* leading and its trailing whitespace
IsTrimmedLine(content, a, b) ==
  /\ a <= b
  /\ ~IsSpace(content[a])
  /\ ~IsSpace(content[b])
  /\ \A i \in a..b : content[i] # LF
  /\ \A i \in 1..(a - 1) :
       (\A j \in i..(a - 1) : content[j] # LF) => IsSpace(content[i])
  /\ \A i \in (b + 1)..Len(content) :
       (\A j \in (b + 1)..(i - 1) : content[j] # LF) => IsSpace(content[i])

\* the lines of content that are not blank, trimmed and in lowercase
TrimmedLowerLines(content) ==
  {[i \in 1..(p[2] - p[1] + 1) |->
      IF content[p[1] + i - 1] \in 65..90 THEN content[p[1] + i - 1] + 32
      ELSE content[p[1] + i - 1]] :
     p \in {q \in (1..Len(content)) \X (1..Len(content)) :
              IsTrimmedLine(content, q[1], q[2])}}

\* some entry of the log of run r is an error
LogsError(r) == \E i \in 1..Len(r.logs) : r.logs[i].level = "error"

\* C11: the load at startup never raises and main goes on to poll; when a
\* file operation fails the failure is logged and the set is empty; else
\* when the file is absent an empty file is created and the set is empty;
\* else the set is exactly the lines of the file that are not blank,
\* trimmed and in lowercase, and the file is left as it was.
C11_LoadNeverRaises ==
  [][last'.handler = "load"
       => /\ ~last'.raised
          /\ pc' = "running"
          /\ IF last'.io = "fail"
               THEN banned_words' = {} /\ LogsError(last')
             ELSE IF ~file.exists
               THEN /\ file' = [exists |-> TRUE, content |-> <<>>]
                    /\ banned_words' = {}
                    /\ ~LogsError(last')
             ELSE /\ banned_words' = TrimmedLowerLines(file.content)
                  /\ file' = file
                  /\ ~LogsError(last')]_vars

\* the file held " A" and the load made the set {"a"} of it
C11_Witness ==
  /\ last.handler = "load"
  /\ last.io = "ok"
  /\ file.content = <<SP, 65>>
  /\ banned_words = {<<97>>}

----------------------------------------------------------------------------
(* C12 *)

\* some external operation of run r failed: a file operation, the
\* membership query, or a call of the chat library
SomethingFailed(r) ==
  \/ r.io = "fail"
  \/ r.status = "error"
  \/ \E i \in 1..Len(r.calls) : ~r.calls[i].ok

\* a message of run r reached the chat
MessageDelivered(r) == \E i \in 1..Len(Messages(r)) : Messages(r)[i].ok

\* C12: no failure of an external operation makes append, list_banned or
\* word_detector end with an unhandled error: a run in which something
\* failed ends normally, with a message delivered, an entry in the log, or
\* both.
C12_NoUnhandledError ==
  (last.handler \in {"append", "list_banned", "word_detector"}
     /\ SomethingFailed(last))
    => /\ ~last.raised
       /\ MessageDelivered(last) \/ last.logs # <<>>

----------------------------------------------------------------------------
(* C13 *)

\* r is a run of append that put its word into the set
Inserted(r) == r.handler = "append" /\ Kinds(r) = <<"Added">>

\* C13: when the write of the file fails during an append, the word is in
\* the set all the same and stays there; a message that holds it is dealt
\* with as a message with a banned word; and any later append whose write
\* goes through leaves in the file a line for every word of the set, the
\* word whose own write failed among them.
C13_FailedWriteKeepsWord ==
  [][/\ (last'.io = "fail" /\ Inserted(last'))
          => /\ Normalize(last'.args) \in banned_words'
             /\ banned_words \subseteq banned_words'
     /\ (last.io = "fail" /\ Inserted(last))
          => LET w == Normalize(last.args)
             IN  /\ w \in banned_words'
                 /\ (last'.handler = "word_detector" /\ OccursIn(w, last'.text))
                      => Deletions(last') # <<>>
                 /\ (last'.io = "ok" /\ Inserted(last'))
                      => LinesEqual(file', w) # {}
     /\ pc = "running" => banned_words \subseteq banned_words'
     /\ (last'.io = "ok" /\ Inserted(last'))
          => \A v \in banned_words' : LinesEqual(file', v) # {}]_vars

\* the write of an append failed: the word is in the set, with another
\* one, and not in the file
C13_Witness ==
  /\ Inserted(last)
  /\ last.io = "fail"
  /\ Normalize(last.args) \in banned_words
  /\ Cardinality(banned_words) = 2
  /\ LinesEqual(file, Normalize(last.args)) = {}

----------------------------------------------------------------------------
(* C14 *)

\* the word command r asks to append
TaskWord(r) == Normalize(r.args)

\* command r, sent by an administrator or the creator, has been through the
\* membership test: it is at its reply or over
Through(r) ==
  /\ r.at \in {"replying", "done"}
  /\ r.chat
  /\ r.status \in {"administrator", "creator"}
  /\ r.kind \in {"Added", "AlreadyPresent"}

\* file f holds the word w on a line, whitespace and case apart
HoldsWord(f, w) == w \in TrimmedLowerLines(f.content)

\* the commands among t and u that were answered "Successfully added"
AddedAmong(t, u) == {x \in {t, u} : tasks[x].kind = "Added"}

Decides(t) ==
  /\ t \in DOMAIN tasks
  /\ tasks[t].at = "asking"
  /\ Through(tasks'[t])

----------------------------------------------------------------------------
(* C15 *)

\* C15: a text message in which no banned word occurs makes word_detector
\* delete nothing, send nothing and log nothing, and leaves the set and the
\* file as they were.
C15_NoMatchNoEffect ==
  [][(last'.handler = "word_detector" /\ ~HoldsBannedWord(last'))
       => /\ last'.calls = <<>>
          /\ last'.logs = <<>>
          /\ ~last'.raised
          /\ UNCHANGED <<banned_words, file>>]_vars

\* a message with a text, shorter than the one banned word there is, went
\* by untouched
C15_Witness ==
  /\ last.handler = "word_detector"
  /\ last.text # <<>>
  /\ \E w \in banned_words : Len(w) > Len(last.text)
  /\ ~HoldsBannedWord(last)
  /\ last.calls = <<>>

----------------------------------------------------------------------------
(* C16 *)

\* C16: an authorized append of a word that is in the set already replies
\* "already in the banned words list" and writes nothing: the file after
\* the command is the file before it, also when the file is not what the
\* set would be written as.
C16_AlreadyPresentWritesNothing ==
  [][(Authorized(last') /\ last'.args # <<>>
        /\ Normalize(last'.args) \in banned_words)
       => /\ Kinds(last') = <<"AlreadyPresent">>
          /\ Messages(last')[1].body = Normalize(last'.args)
          /\ file' = file
          /\ banned_words' = banned_words
          /\ last'.io = "none"
          /\ last'.logs = <<>>]_vars

\* "already in the list" was the answer while the file did not hold the
\* words of the set
C16_Witness ==
  /\ Authorized(last)
  /\ Kinds(last) = <<"AlreadyPresent">>
  /\ Normalize(last.args) \in banned_words
  /\ \E v \in banned_words : LinesEqual(file, v) = {}

----------------------------------------------------------------------------
(* C17 *)

\* C17: once the load at startup is done, no step of any handler takes a
\* word out of the set, and a step that puts one in is an authorized
\* append that went as far as the insertion, the word being the one it
\* was given, normalized.
C17_SetOnlyGrows ==
  [][pc = "running"
       => /\ pc' = "running"
          /\ banned_words \subseteq banned_words'
          /\ banned_words' # banned_words
               => /\ Authorized(last')
                  /\ Inserted(last')
                  /\ banned_words' = banned_words \cup {Normalize(last'.args)}
          /\ last'.handler \in {"start", "contact", "list_banned", "word_detector"}
               => banned_words' = banned_words]_vars

\* a second word came into a set loaded from the file, the first still
\* there
C17_Witness ==
  /\ Authorized(last)
  /\ Inserted(last)
  /\ Cardinality(banned_words) = 2
  /\ \E v \in banned_words : v # Normalize(last.args)

----------------------------------------------------------------------------
(* C18 *)

\* C18: every word the file holds when the process starts is still in the
\* file after the load and whatever appends and messages follow.  Stated
\* for the operation that follows the load: the file is then still the one
\* of the start (the load writes it only to create it, empty), and none of
\* its words may be gone after the operation.
C18_PersistedWordsKept ==
  [][last.handler = "load"
       => TrimmedLowerLines(file.content) \subseteq TrimmedLowerLines(file'.content)]_vars

----------------------------------------------------------------------------
(* C19 *)

\* C19: word_detector sends the plain warning as a reply and logs an error
\* of deletion only if the deletion of the message failed; a message whose
\* deletion went through never gets the plain warning.
C19_FallbackOnlyAfterFailedDeletion ==
  (/\ last.handler = "word_detector"
   /\ \/ \E i \in 1..Len(Messages(last)) : Messages(last)[i].kind = "WarnPlain"
      \/ \E i \in 1..Len(last.logs) : last.logs[i].event = "deleting")
    => /\ Deletions(last) # <<>>
       /\ ~Deletions(last)[1].ok

====
